---- MODULE Spec2Model ----
(***************************************************************************)
(* MGCP bridging core of the BSC NAT (osmo-bsc_nat/bsc_mgcp_utils.c).      *)
(*                                                                         *)
(* State: the SCCP connections (msc_endp, bsc_endp, owning BSC), every     *)
(* BSC's endpoint status array with its cursor and the NAT's per-endpoint  *)
(* pending-transaction slots (nat->bsc_endpoints).  One action per entry   *)
(* point: bsc_mgcp_assign_patch, bsc_mgcp_dlcx, bsc_mgcp_policy_cb,        *)
(* bsc_mgcp_forward and bsc_mgcp_clear_endpoints_for.                      *)
(*                                                                         *)
(* The trunk's endpoints (mgcp_cfg->trunk.endpoints) belong to the MGCP    *)
(* library; this code writes their ci and releases them and never reads    *)
(* back what it wrote, so these writes are outputs.  The outputs of an     *)
(* action (messages to a BSC and to the Call Agent, writes to the trunk),  *)
(* its inputs and its return value are kept for the last action only       *)
(* (bsc_out, agent_out, trunk_out, op), so that properties of one call are *)
(* action properties.                                                      *)
(***************************************************************************)
EXTENDS Integers, Sequences, FiniteSets, TLC

(* ------------------------------------------------------------------ *)
(* Bounds of the model                                                  *)
(* ------------------------------------------------------------------ *)

\* number of BSC connections
NumBsc == 2

\* number of SCCP connections in nat->sccp_connections
NumSccp == 2

\* mgcp_cfg->trunk.number_endpoints: the trunk's endpoints are 1..NumberEndpoints-1
NumberEndpoints == 3

\* bsc->cfg->max_endpoints of BSC 1: its endpoints are 1..MaxEndpointsFirst-1
MaxEndpointsFirst == 3

\* bsc->cfg->max_endpoints of the other BSCs
MaxEndpointsOther == 2

\* transaction ids the Call Agent and the BSCs use: 1..NumTid
NumTid == 2

(* ------------------------------------------------------------------ *)
(* Values                                                               *)
(* ------------------------------------------------------------------ *)

Bscs == 1..NumBsc

\* bsc->cfg->max_endpoints of BSC b
CfgMaxEndpoints(b) == IF b = 1 THEN MaxEndpointsFirst ELSE MaxEndpointsOther
Sccps == 1..NumSccp
Endpoints == 1..(NumberEndpoints - 1)
Tids == 1..NumTid
Verbs == {"CRCX", "MDCX", "DLCX"}

\* a NULL pointer: no transaction id string, no bsc reference
NULL == 0

\* the absent connection identifier of an endpoint
CI_UNUSED == 0

\* a connection identifier a BSC assigns
SomeCi == 57

\* input longer than this is refused by bsc_mgcp_forward
MaxForwardLen == 2000

\* length of an ordinary message
NormalLen == 100

\* the NAT's mgcp_cfg->source_addr, and the ports of a trunk endpoint
SourceAddr == <<10, 0, 0, 1>>
BtsLocalPort(e) == 1000 + e
NetLocalPort(e) == 2000 + e

(* ------------------------------------------------------------------ *)
(* Endpoint numbering and the allocator                                 *)
(* ------------------------------------------------------------------ *)

\* mgcp_endpoint_to_timeslot: the timeslot is the low 5 bits, the multiplex above
mgcp_endpoint_to_timeslot(endpoint) ==
    [multiplex |-> endpoint \div 32, timeslot |-> endpoint % 32]

\* mgcp_timeslot_to_endpoint, for a timeslot other than 0
mgcp_timeslot_to_endpoint(multiplex, timeslot) == timeslot + 32 * multiplex

bsc_mgcp_nr_multiplexes(max_endpoints) ==
    LET div == max_endpoints \div 32
    IN  IF (max_endpoints % 32) # 0 THEN div + 1 ELSE div

\* the zeroed status array talloc_zero_array(con, char, 32 * multiplexes + 1)
ZeroStatus(multiplexes) == [i \in 0..(32 * multiplexes) |-> 0]

\* the state of a BSC connection before bsc_init_endps_if_needed: no status array
NoStatus == <<>>

\* the scan of bsc_assign_endpoint: iteration i with the loop's multiplex and
\* timeslot; the endpoint found, or -1 when the loop ends
\* a scan that takes max_endpoints itself for an endpoint that can be handed out
RECURSIVE ScanEndpointInclusive(_, _, _, _, _, _)
ScanEndpointInclusive(status, max_endpoints, number_multiplexes, i, multiplex, timeslot) ==
    IF i >= max_endpoints THEN -1
    ELSE LET ts1 == IF timeslot = 0 THEN 1 ELSE timeslot
             ts2 == IF ts1 = 31 THEN 1 ELSE ts1
             mx2 == IF ts1 = 31 THEN multiplex + 1 ELSE multiplex
             mx3 == IF mx2 >= number_multiplexes THEN 0 ELSE mx2
             ep3 == mgcp_timeslot_to_endpoint(mx3, ts2)
             over == ep3 > max_endpoints
             mx4 == IF over THEN 0 ELSE mx3
             ts4 == IF over THEN 1 ELSE ts2
             endpoint == IF over THEN mgcp_timeslot_to_endpoint(0, 1) ELSE ep3
         IN  IF status[endpoint] = 0 THEN endpoint
             ELSE ScanEndpointInclusive(status, max_endpoints, number_multiplexes,
                                        i + 1, mx4, ts4 + 1)

RECURSIVE ScanEndpoint(_, _, _, _, _, _)
ScanEndpoint(status, max_endpoints, number_multiplexes, i, multiplex, timeslot) ==
    IF i >= max_endpoints THEN -1
    ELSE LET ts1 == IF timeslot = 0 THEN 1 ELSE timeslot
             ts2 == IF ts1 = 31 THEN 1 ELSE ts1
             mx2 == IF ts1 = 31 THEN multiplex + 1 ELSE multiplex
             mx3 == IF mx2 >= number_multiplexes THEN 0 ELSE mx2
             ep3 == mgcp_timeslot_to_endpoint(mx3, ts2)
             over == ep3 >= max_endpoints
             mx4 == IF over THEN 0 ELSE mx3
             ts4 == IF over THEN 1 ELSE ts2
             endpoint == IF over THEN mgcp_timeslot_to_endpoint(0, 1) ELSE ep3
         IN  IF status[endpoint] = 0 THEN endpoint
             ELSE ScanEndpoint(status, max_endpoints, number_multiplexes,
                               i + 1, mx4, ts4 + 1)

\* the value an int has as uint16_t, as uint8_t
Uint16(n) == n % 65536
Uint8(n) == n % 256

\* create_cic(endpoint): (multiplex << 5) | (timeslot & 0x1f), where the two
\* operands have no bit in common, as uint16_t
create_cic(endpoint) ==
    LET pos == mgcp_endpoint_to_timeslot(endpoint)
    IN  Uint16(pos.multiplex * 32 + (pos.timeslot % 32))

\* ntohs of the two bytes of the CIC element, and htons with the bytes it stores
ntohs(bytes) == bytes[1] * 256 + bytes[2]
htons(cic) == <<cic \div 256, cic % 256>>

\* bsc_mgcp_assign_patch decodes the CIC: timeslot = cic & 0x1f and
\* multiplex = (cic & ~0x1f) >> 5, both uint8_t
DecodeCic(cic) ==
    [multiplex |-> Uint8((cic - (cic % 32)) \div 32), timeslot |-> Uint8(cic % 32)]

(* ------------------------------------------------------------------ *)
(* MGCP messages: a length and a sequence of lines                      *)
(* ------------------------------------------------------------------ *)

\* "<verb> <transaction id> <endpoint>@mgw MGCP 1.0"
VerbLine(verb, tid, endp) == [t |-> "verb", verb |-> verb, tid |-> tid, endp |-> endp, cr |-> TRUE]

\* "Z: noanswer", an empty line, and any other line copied as it is
OtherLine(text, cr) == [t |-> "other", text |-> text, cr |-> cr]

\* "c=IN IP4 <ip>", ip a dotted address as its four numbers
IpLine(ip) == [t |-> "c", ip |-> ip, cr |-> TRUE]

\* "m=audio <port> RTP/AVP <payload>"; parsed is FALSE for a line that starts
\* with "m=audio " and does not scan as "m=audio %*d RTP/AVP %d"
AudioLine(port, payload, parsed) ==
    [t |-> "m", port |-> port, payload |-> payload, parsed |-> parsed, cr |-> TRUE]

\* "a=fmtp:<payload> mode-set=2"
FmtpLine(payload, cr) == [t |-> "fmtp", payload |-> payload, cr |-> cr]

\* "<code> <transaction id>", the first line of a response
StatusLine(tid) == [t |-> "status", tid |-> tid, cr |-> TRUE]

\* "I: <ci>"; parsed is FALSE for "I: " followed by no number
CiLine(ci, parsed) == [t |-> "I", ci |-> ci, parsed |-> parsed, cr |-> TRUE]

\* a message of len bytes: its lines, every one terminated by LF
Msg(len, lines) == [len |-> len, lines |-> lines, lf |-> TRUE]

\* the number of characters %d prints for n, a number of at most five digits
\* with or without a sign
Digits(n) ==
    IF n < 0 THEN (IF n > -10 THEN 2 ELSE IF n > -100 THEN 3 ELSE IF n > -1000 THEN 4
                   ELSE IF n > -10000 THEN 5 ELSE 6)
    ELSE IF n < 10 THEN 1 ELSE IF n < 100 THEN 2 ELSE IF n < 1000 THEN 3
    ELSE IF n < 10000 THEN 4 ELSE 5

\* the number of characters %x prints for n, -1 or a number below 65536; it
\* prints -1 as ffffffff
HexDigits(n) ==
    IF n < 0 THEN 8
    ELSE IF n < 16 THEN 1 ELSE IF n < 256 THEN 2 ELSE IF n < 4096 THEN 3 ELSE 4

\* the length of a dotted IPv4 address, four numbers and three dots
IpLen(ip) == Digits(ip[1]) + Digits(ip[2]) + Digits(ip[3]) + Digits(ip[4]) + 3

\* the length of a line with its line ending: a verb has 4 letters,
\* "@mgw MGCP 1.0" 13, "c=IN IP4 " 9, "m=audio " 8, " RTP/AVP " 9,
\* "a=fmtp:" 7, " mode-set=2" 11, "200 " 4 and "I: " 3
LineLen(line) ==
    (IF line.cr THEN 2 ELSE 1) +
    CASE line.t = "verb" ->
             IF line.tid = 0 THEN 4 + 1
             ELSE 4 + 1 + Digits(line.tid) + 1 + HexDigits(line.endp) + 13
      [] line.t = "c" -> 9 + IpLen(line.ip)
      [] line.t = "m" ->
             IF ~line.parsed THEN 8
             ELSE 8 + Digits(line.port) + 9 + Digits(line.payload)
      [] line.t = "fmtp" -> 7 + Digits(line.payload) + 11
      [] line.t = "status" -> 4 + Digits(line.tid)
      [] line.t = "I" -> 3 + (IF line.parsed THEN Digits(line.ci) ELSE 0)
      [] OTHER -> Len(line.text)

RECURSIVE SumLen(_)
SumLen(lines) == IF lines = <<>> THEN 0 ELSE LineLen(Head(lines)) + SumLen(Tail(lines))

\* the length of the lines of a message, the last one without its LF when no LF
\* terminates it
LinesLen(msg) == SumLen(msg.lines) - (IF msg.lf \/ msg.lines = <<>> THEN 0 ELSE 1)

\* the lines the loop of bsc_mgcp_rewrite gets from strsep: the last token, the
\* one that no LF terminates, ends the loop before it is looked at
Scanned(msg) ==
    IF msg.lf \/ msg.lines = <<>> THEN msg.lines
    ELSE SubSeq(msg.lines, 1, Len(msg.lines) - 1)

\* the bodies a message of the Call Agent or of a BSC carries
SdpBody == <<OtherLine("", TRUE), IpLine(<<1, 1, 1, 1>>), AudioLine(4000, 8, TRUE)>>
BadAudioBody == <<OtherLine("", TRUE), IpLine(<<1, 1, 1, 1>>), AudioLine(4000, 8, FALSE)>>
Bodies == {SdpBody, BadAudioBody}

\* the messages the Call Agent sends for (verb, transaction id, endpoint): the
\* body the rewriter refuses comes with transaction 1 for endpoint 1 only, and
\* an MDCX has transaction 1
Requests(verb, tid, endpoint) ==
    IF verb = "MDCX" /\ tid # 1 THEN {}
    ELSE {Msg(NormalLen, <<VerbLine(verb, tid, endpoint)>> \o body) :
              body \in IF tid = 1 /\ endpoint = 1 THEN Bodies ELSE {SdpBody}}

\* the messages every BSC sends: responses with and without a connection
\* identifier
GoodReplies ==
    {Msg(NormalLen, <<StatusLine(tid), CiLine(SomeCi, TRUE)>> \o SdpBody) : tid \in Tids}
    \cup {Msg(NormalLen, <<StatusLine(tid)>> \o SdpBody) : tid \in Tids}

\* the messages BSC b sends: the first BSC also sends a response the rewriter
\* refuses, responses whose connection identifier is CI_UNUSED or does not
\* scan, a message that is no response, and a message longer than
\* bsc_mgcp_forward accepts
Replies(b) ==
    IF b # 1 THEN GoodReplies
    ELSE GoodReplies
         \cup {Msg(NormalLen, <<StatusLine(1), CiLine(SomeCi, TRUE)>> \o BadAudioBody),
               Msg(NormalLen, <<StatusLine(1), CiLine(CI_UNUSED, TRUE)>> \o SdpBody),
               Msg(NormalLen, <<StatusLine(1), CiLine(0, FALSE)>> \o SdpBody),
               Msg(NormalLen, <<OtherLine("garbage", TRUE), CiLine(SomeCi, TRUE)>>),
               Msg(MaxForwardLen + 1, <<StatusLine(1), CiLine(SomeCi, TRUE)>> \o SdpBody)}

\* an auxiliary MDCX that names the trunk endpoint instead of the BSC endpoint
MdcxMsgTrunkEndpoint(port, endp) ==
    Msg(NormalLen, <<VerbLine("MDCX", 23, endp), OtherLine("Z: noanswer", TRUE),
                     OtherLine("", TRUE), IpLine(SourceAddr),
                     AudioLine(BtsLocalPort(endp), 255, TRUE)>>)

\* the auxiliary MDCX of bsc_mgcp_send_mdcx
MdcxMsg(port, endp) ==
    Msg(NormalLen, <<VerbLine("MDCX", 23, port), OtherLine("Z: noanswer", TRUE),
                     OtherLine("", TRUE), IpLine(SourceAddr),
                     AudioLine(BtsLocalPort(endp), 255, TRUE)>>)

\* the DLCX of bsc_mgcp_send_dlcx
DlcxMsg(endpoint) ==
    Msg(NormalLen, <<VerbLine("DLCX", 26, endpoint), OtherLine("Z: noanswer", TRUE)>>)

\* bsc_mgcp_parse_response: the transaction id of the status line, 0 when the
\* message does not start with "<code> <transaction id>"
bsc_mgcp_parse_response(msg) ==
    IF Len(msg.lines) > 0 /\ msg.lines[1].t = "status" THEN msg.lines[1].tid ELSE 0

\* bsc_mgcp_extract_ci: the number after the first "I: ", CI_UNUSED without one
bsc_mgcp_extract_ci(msg) ==
    LET is == {i \in 1..Len(msg.lines) : msg.lines[i].t = "I"}
    IN  IF is = {} THEN CI_UNUSED
        ELSE LET first == CHOOSE i \in is : \A j \in is : i <= j
             IN  IF msg.lines[first].parsed THEN msg.lines[first].ci ELSE CI_UNUSED

\* patch_mgcp and the line cases of bsc_mgcp_rewrite: the lines one input line
\* becomes
RewriteLine(line, endpoint, ip, port) ==
    CASE line.t = "verb" ->
             IF line.tid = 0 THEN <<>>
             ELSE <<[line EXCEPT !.endp = endpoint]>>
      [] line.t = "c" -> <<[line EXCEPT !.ip = ip]>>
      [] line.t = "m" -> <<[line EXCEPT !.port = port]>>
      [] OTHER -> <<line>>

RECURSIVE RewriteLines(_, _, _, _)
RewriteLines(lines, endpoint, ip, port) ==
    IF lines = <<>> THEN <<>>
    ELSE RewriteLine(Head(lines), endpoint, ip, port)
             \o RewriteLines(Tail(lines), endpoint, ip, port)

\* the bytes the output line or lines have more than the input line
LineGrowth(line, endpoint, ip, port) ==
    CASE line.t = "verb" ->
             IF line.tid = 0 THEN 0 - LineLen(line)
             ELSE HexDigits(endpoint) - HexDigits(line.endp)
      [] line.t = "c" -> IpLen(ip) - IpLen(line.ip)
      [] line.t = "m" -> Digits(port) - Digits(line.port)
      [] OTHER -> 0

RECURSIVE SumGrowth(_, _, _, _)
SumGrowth(lines, endpoint, ip, port) ==
    IF lines = <<>> THEN 0
    ELSE LineGrowth(Head(lines), endpoint, ip, port)
             + SumGrowth(Tail(lines), endpoint, ip, port)

\* the payload of the last m=audio line, -1 without one
LastPayload(lines) ==
    LET ms == {i \in 1..Len(lines) : lines[i].t = "m"}
    IN  IF ms = {} THEN -1
        ELSE lines[CHOOSE i \in ms : \A j \in ms : j <= i].payload

\* the longest input bsc_mgcp_rewrite takes
MaxRewriteLen == 4096 - 256

\* a flag that only an a=fmtp: line after the last m=audio line sets
FoundFmtpAfterAudio(lines) ==
    \E i \in 1..Len(lines) :
        /\ lines[i].t = "fmtp"
        /\ \A j \in i..Len(lines) : lines[j].t # "m"

\* a flag that nothing sets
FoundFmtpNever(lines) == FALSE

\* found_fmtp after the loop: some line started with "a=fmtp:"
FoundFmtp(lines) == \E i \in 1..Len(lines) : lines[i].t = "fmtp"

\* bsc_mgcp_rewrite(input, length, endpoint, ip, port): ok is FALSE for NULL;
\* the lines of the output and its length, which is the length of the input
\* less the last token, plus what the lines grow by and the appended line
bsc_mgcp_rewrite(msg, endpoint, ip, port) ==
    LET lines == Scanned(msg)
        bad == \E i \in 1..Len(lines) : lines[i].t = "m" /\ ~lines[i].parsed
        found_fmtp == FoundFmtp(lines)
        payload == LastPayload(lines)
        cr == IF lines = <<>> THEN TRUE ELSE lines[Len(lines)].cr
        out == RewriteLines(lines, endpoint, ip, port)
        append == ~found_fmtp /\ payload # -1
        last == IF msg.lf \/ msg.lines = <<>> THEN 0
                ELSE LineLen(msg.lines[Len(msg.lines)]) - 1
    IN  IF msg.len > MaxRewriteLen \/ bad THEN [ok |-> FALSE, lines |-> <<>>, len |-> 0]
        ELSE [ok |-> TRUE,
              lines |-> IF append THEN Append(out, FmtpLine(payload, cr)) ELSE out,
              len |-> msg.len - last + SumGrowth(lines, endpoint, ip, port)
                          + (IF append THEN LineLen(FmtpLine(payload, cr)) ELSE 0)]

(* ------------------------------------------------------------------ *)
(* State                                                                *)
(* ------------------------------------------------------------------ *)

VARIABLES
    sccp,           \* nat->sccp_connections, in list order: msc_endp and bsc_endp
    sccp_bsc,       \* con->bsc of every SCCP connection
    bsc,            \* every BSC connection: _endpoint_status, last_endpoint, ...
    bsc_endpoints,  \* nat->bsc_endpoints: the pending-transaction slots
    trunk_out,      \* what the last action wrote to mgcp_cfg->trunk.endpoints
    bsc_out,        \* what the last action wrote to the BSCs, in order
    agent_out,      \* what the last action queued for the Call Agent
    bssmap,         \* the BSSMAP message of the last action, before and after
    rewritten,      \* the input of bsc_mgcp_rewrite on its own and its outputs
    op              \* the last action: its name, inputs and return value

vars == <<sccp, sccp_bsc, bsc, bsc_endpoints, trunk_out, bsc_out, agent_out, bssmap, rewritten, op>>

\* the state the functions below read and change
Cur == [sccp |-> sccp, bsc |-> bsc, slots |-> bsc_endpoints,
        tout |-> <<>>, bout |-> <<>>, aout |-> <<>>]

EmptySlot == [transaction_id |-> NULL, transaction_state |-> "none", bsc |-> NULL]

\* the writes to trunk endpoint i: its ci is set, it is released
SetCi(i, ci) == [endpoint |-> i, what |-> "ci", ci |-> ci]
FreeEndp(i) == [endpoint |-> i, what |-> "free", ci |-> CI_UNUSED]

\* bsc_mgcp_init(con)
bsc_mgcp_init == [msc_endp |-> -1, bsc_endp |-> -1]

\* a bsc_connection before its first assignment
FreshBsc == [status |-> NoStatus, last_endpoint |-> 0,
             max_endpoints |-> 0, number_multiplexes |-> 0]

SendBsc(st, b, msg) == [st EXCEPT !.bout = Append(@, [to |-> b, msg |-> msg])]

\* bsc_init_endps_if_needed(con), for a BSC that has its configuration: the
\* BSC connection after the call
bsc_init_endps_if_needed(con, b) ==
    IF con.status # NoStatus THEN con
    ELSE [con EXCEPT !.number_multiplexes = bsc_mgcp_nr_multiplexes(CfgMaxEndpoints(b)),
                     !.max_endpoints = CfgMaxEndpoints(b),
                     !.status = ZeroStatus(bsc_mgcp_nr_multiplexes(CfgMaxEndpoints(b)))]

\* the endpoint bsc_assign_endpoint claims for SCCP connection s: status byte,
\* con->bsc_endp and the cursor
ClaimEndpoint(st, s, endpoint) ==
    [st EXCEPT !.bsc[sccp_bsc[s]].status[endpoint] = 1,
               !.sccp[s].bsc_endp = endpoint,
               !.bsc[sccp_bsc[s]].last_endpoint = endpoint]

\* bsc_mgcp_free_endpoint(nat, i)
bsc_mgcp_free_endpoint(st, i) == [st EXCEPT !.slots[i] = EmptySlot]

\* mgcp_free_endp(endp): the trunk endpoint is released
mgcp_free_endp(st, i) == [st EXCEPT !.tout = Append(@, FreeEndp(i))]

\* a teardown that forgets the status byte
bsc_mgcp_dlcx_keep_status(st, s) ==
    LET con == st.sccp[s]
        b == sccp_bsc[s]
    IN  IF con.bsc_endp # -1 /\ st.bsc[b].status # NoStatus
        THEN [bsc_mgcp_free_endpoint(SendBsc(st, b, DlcxMsg(con.bsc_endp)), con.msc_endp)
                 EXCEPT !.sccp[s] = bsc_mgcp_init]
        ELSE [st EXCEPT !.sccp[s] = bsc_mgcp_init]

\* bsc_mgcp_dlcx(con): the session teardown
bsc_mgcp_dlcx(st, s) ==
    LET con == st.sccp[s]
        b == sccp_bsc[s]
    IN  IF con.bsc_endp # -1 /\ st.bsc[b].status # NoStatus
        THEN [bsc_mgcp_free_endpoint(SendBsc(st, b, DlcxMsg(con.bsc_endp)), con.msc_endp)
                 EXCEPT !.bsc[b].status[con.bsc_endp] = 0, !.sccp[s] = bsc_mgcp_init]
        ELSE [st EXCEPT !.sccp[s] = bsc_mgcp_init]

\* a lookup that compares the endpoint with bsc_endp instead of msc_endp
bsc_mgcp_find_con_bsc_endp(st, endpoint) ==
    LET found == {s \in Sccps : st.sccp[s].bsc_endp # -1 /\ st.sccp[s].bsc_endp = endpoint}
    IN  IF found = {} THEN 0 ELSE CHOOSE s \in found : \A r \in found : r <= s

\* bsc_mgcp_find_con(nat, endpoint): the last connection of the list with this
\* msc_endp, 0 for NULL
bsc_mgcp_find_con(st, endpoint) ==
    LET found == {s \in Sccps : st.sccp[s].msc_endp # -1 /\ st.sccp[s].msc_endp = endpoint}
    IN  IF found = {} THEN 0 ELSE CHOOSE s \in found : \A r \in found : r <= s

\* an allocator that takes the slot after the cursor without looking at its status
bsc_assign_endpoint_nocheck(st, s) ==
    LET con == st.bsc[sccp_bsc[s]]
        next == con.last_endpoint + 1
    IN  [rc |-> 0,
         st |-> ClaimEndpoint(st, s, IF next >= con.max_endpoints THEN 1 ELSE next)]

\* bsc_assign_endpoint(bsc, con)
bsc_assign_endpoint(st, s) ==
    LET con == st.bsc[sccp_bsc[s]]
        pos == mgcp_endpoint_to_timeslot(con.last_endpoint)
        endpoint == ScanEndpoint(con.status, con.max_endpoints, con.number_multiplexes,
                                 0, pos.multiplex, pos.timeslot + 1)
    IN  IF endpoint = -1 THEN [rc |-> -1, st |-> st]
        ELSE [rc |-> 0, st |-> ClaimEndpoint(st, s, endpoint)]

\* an assignment that tears down no stale connection
StaleKept(st, endp, s) == st

\* the loop of bsc_mgcp_assign_patch over nat->sccp_connections, from connection
\* s on: every connection that has endp as its msc_endp is torn down
RECURSIVE StaleDlcx(_, _, _)
StaleDlcx(st, endp, s) ==
    IF s > NumSccp THEN st
    ELSE StaleDlcx(IF st.sccp[s].msc_endp = endp THEN bsc_mgcp_dlcx(st, s) ELSE st,
                   endp, s + 1)

\* a BSSMAP message: whether l3h is set, the layer-3 length, the two bytes of
\* the CIC element (<<>> without one) and the other bytes
Bssmap(l3h, l3len, cic, rest) == [l3h |-> l3h, l3len |-> l3len, cic |-> cic, rest |-> rest]

\* the BSSMAP ASSIGNMENT REQUESTs of the MSC for SCCP connection s: with the CIC
\* of a timeslot 1..NumberEndpoints - 1, and for the first connection also
\* without l3h, too short, without a CIC element, and with the CIC of timeslot
\* NumberEndpoints, which is no endpoint of the trunk
AssignMsgs(s) ==
    {Bssmap(TRUE, 10, htons(c), "assignment") : c \in 1..(NumberEndpoints - 1)}
    \cup (IF s # 1 THEN {}
          ELSE {Bssmap(FALSE, 0, <<>>, "assignment"), Bssmap(TRUE, 2, <<>>, "assignment"),
                Bssmap(TRUE, 10, <<>>, "assignment"),
                Bssmap(TRUE, 10, htons(NumberEndpoints), "assignment")})

\* the bytes of a BSSMAP message
Bytes(msg) == [cic |-> msg.cic, rest |-> msg.rest]

\* a patch that stores the CIC in host order on a little-endian machine
PatchCicHostOrder(msg, cic) == [msg EXCEPT !.cic = <<cic % 256, cic \div 256>>]

\* bsc_mgcp_assign_patch overwrites the two bytes of the CIC element
PatchCic(msg, cic) == [msg EXCEPT !.cic = htons(cic)]

\* a patcher that checks the endpoint against trunk.number_endpoints after it
\* has torn down the stale sessions and set con->msc_endp
bsc_mgcp_assign_patch_late_check(st, s, msg) ==
    LET pos == DecodeCic(ntohs(msg.cic))
        endp == mgcp_timeslot_to_endpoint(pos.multiplex, pos.timeslot)
        st1 == StaleDlcx(st, endp, 1)
        st2 == [st1 EXCEPT !.sccp[s].msc_endp = endp]
        st3 == [st2 EXCEPT !.bsc[sccp_bsc[s]] = bsc_init_endps_if_needed(@, sccp_bsc[s])]
        got == bsc_assign_endpoint(st3, s)
    IN  IF ~msg.l3h \/ msg.l3len < 3 \/ msg.cic = <<>>
        THEN [rc |-> -1, note |-> "no cic", st |-> st, endp |-> 0, msg |-> msg]
        ELSE IF endp >= NumberEndpoints
        THEN [rc |-> -1, note |-> "bad endpoint", st |-> st2, endp |-> endp, msg |-> msg]
        ELSE IF got.rc # 0
        THEN [rc |-> -1, note |-> "no endpoint", st |-> got.st, endp |-> endp,
              msg |-> msg]
        ELSE [rc |-> 0, note |-> "ok", st |-> got.st, endp |-> endp,
              msg |-> PatchCic(msg, create_cic(got.st.sccp[s].bsc_endp))]

\* bsc_mgcp_assign_patch(con, msg): the return value, the state, the upstream
\* endpoint decoded (0 before it is) and the message afterwards
bsc_mgcp_assign_patch(st, s, msg) ==
    LET pos == DecodeCic(ntohs(msg.cic))
        endp == mgcp_timeslot_to_endpoint(pos.multiplex, pos.timeslot)
        st1 == StaleDlcx(st, endp, 1)
        st2 == [st1 EXCEPT !.sccp[s].msc_endp = endp]
        st3 == [st2 EXCEPT !.bsc[sccp_bsc[s]] = bsc_init_endps_if_needed(@, sccp_bsc[s])]
        got == bsc_assign_endpoint(st3, s)
    IN  IF ~msg.l3h \/ msg.l3len < 3 \/ msg.cic = <<>>
        THEN [rc |-> -1, note |-> "no cic", st |-> st, endp |-> 0, msg |-> msg]
        ELSE IF endp >= NumberEndpoints
        THEN [rc |-> -1, note |-> "bad endpoint", st |-> st, endp |-> endp, msg |-> msg]
        ELSE IF got.rc # 0
        THEN [rc |-> -1, note |-> "no endpoint", st |-> got.st, endp |-> endp,
              msg |-> msg]
        ELSE [rc |-> 0, note |-> "ok", st |-> got.st, endp |-> endp,
              msg |-> PatchCic(msg, create_cic(got.st.sccp[s].bsc_endp))]

\* a failure path that sends the DLCX and leaves the pending slot as it is
free_chan_downstream_keep_slot(st, i, b) ==
    LET con == bsc_mgcp_find_con(st, i)
        st1 == IF st.slots[i].transaction_state = "CRCX" /\ con # 0 /\ sccp_bsc[con] = b
               THEN SendBsc(st, b, DlcxMsg(st.sccp[con].bsc_endp))
               ELSE st
    IN  mgcp_free_endp(st1, i)

\* free_chan_downstream(endp, bsc_endp, bsc) for trunk endpoint i
free_chan_downstream(st, i, b) ==
    LET con == bsc_mgcp_find_con(st, i)
        st1 == IF st.slots[i].transaction_state = "CRCX" /\ con # 0 /\ sccp_bsc[con] = b
               THEN SendBsc(st, b, DlcxMsg(st.sccp[con].bsc_endp))
               ELSE st
    IN  mgcp_free_endp(bsc_mgcp_free_endpoint(st1, i), i)

\* a forwarder that does not store the connection identifier
StoreCiNot(st, i, ci) == st

\* bsc_mgcp_forward stores the connection identifier on the endpoint
StoreCi(st, i, ci) == [st EXCEPT !.tout = Append(@, SetCi(i, ci))]

\* a clearing that frees the transaction id and forgets to reset the state
ClearTransactionIdOnly(st, i) == [st EXCEPT !.slots[i].transaction_id = NULL]

\* a clearing that resets the state and keeps the transaction id
ClearTransactionStateOnly(st, i) == [st EXCEPT !.slots[i].transaction_state = "none"]

\* bsc_mgcp_forward frees the transaction id and resets the state of the slot
ClearTransaction(st, i) ==
    [st EXCEPT !.slots[i].transaction_id = NULL, !.slots[i].transaction_state = "none"]

\* a search that matches the transaction id without looking at the bsc of the
\* slot
MatchSlotAnyBsc(st, b, tid) ==
    LET found == {i \in Endpoints : /\ st.slots[i].transaction_id # NULL
                                    /\ st.slots[i].transaction_id = tid}
    IN  IF found = {} THEN 0 ELSE CHOOSE i \in found : \A j \in found : i <= j

\* the slot bsc_mgcp_forward finds for a response of BSC b with this
\* transaction id: the first of the table, 0 for none
MatchSlot(st, b, tid) ==
    LET found == {i \in Endpoints : /\ st.slots[i].bsc = b
                                    /\ st.slots[i].transaction_id # NULL
                                    /\ st.slots[i].transaction_id = tid}
    IN  IF found = {} THEN 0 ELSE CHOOSE i \in found : \A j \in found : i <= j

\* bsc_mgcp_forward(bsc, msg): the state afterwards, as note the exit taken, and
\* the transaction id, endpoint and connection identifier found up to there
bsc_mgcp_forward(st, b, msg) ==
    LET tid == bsc_mgcp_parse_response(msg)
        i == MatchSlot(st, b, tid)
        ci == bsc_mgcp_extract_ci(msg)
        st1 == StoreCi(st, i, ci)
        st2 == ClearTransaction(st1, i)
        output == bsc_mgcp_rewrite(msg, -1, SourceAddr, NetLocalPort(i))
        at(note, new, t, e, c) ==
            [note |-> note, st |-> new, tid |-> t, endpoint |-> e, ci |-> c]
    IN  IF msg.len > MaxForwardLen THEN at("too long", st, 0, 0, 0)
        ELSE IF tid = 0 THEN at("no response", st, 0, 0, 0)
        ELSE IF i = 0 THEN at("no endpoint", st, tid, 0, 0)
        ELSE IF ci = CI_UNUSED
        THEN at("no ci", free_chan_downstream(st1, i, b), tid, i, ci)
        ELSE IF ~output.ok THEN at("no rewrite", st2, tid, i, ci)
        ELSE at("forwarded",
                [st2 EXCEPT !.aout = Append(@, Msg(output.len, output.lines))], tid, i, ci)

\* the loop of bsc_mgcp_clear_endpoints_for, from trunk endpoint i on
\* with ctr the rate_ctr_inc calls made so far
RECURSIVE ClearFrom(_, _, _, _)
ClearFrom(st, b, i, ctr) ==
    IF i >= NumberEndpoints THEN [st |-> st, ctr |-> ctr]
    ELSE IF st.slots[i].bsc # b THEN ClearFrom(st, b, i + 1, ctr)
    ELSE ClearFrom(mgcp_free_endp(bsc_mgcp_free_endpoint(st, i), i), b, i + 1, ctr + 1)

\* a loop that starts at trunk endpoint 2
bsc_mgcp_clear_endpoints_from_two(st, b) == ClearFrom(st, b, 2, 0)

\* bsc_mgcp_clear_endpoints_for(bsc): the state and the number of rate_ctr_inc
\* calls on the dropped-calls counter of the BSC
bsc_mgcp_clear_endpoints_for(st, b) == ClearFrom(st, b, 1, 0)

\* an entry that leaves the pending transaction of the endpoint where it is
KeepPending(st, endpoint) == st

\* the entry of bsc_mgcp_policy_cb: a pending transaction id of the endpoint is
\* freed and its state reset, the bsc of the slot is cleared
DiscardPending(st, endpoint) ==
    LET old == st.slots[endpoint]
    IN  [st EXCEPT !.slots[endpoint] =
            [transaction_id |-> NULL,
             transaction_state |-> IF old.transaction_id # NULL THEN "none"
                                   ELSE old.transaction_state,
             bsc |-> NULL]]

\* bsc_mgcp_policy_cb(tcfg, endpoint, state, transaction_id) with nat->mgcp_msg:
\* the return value, the exit taken, the state, the SCCP connection found (0 for
\* none) and the pending transaction id it discarded (NULL for none)
\* (the peer address it stores in bts_end.addr is not part of this state)
bsc_mgcp_policy_cb(st, endpoint, state, transaction_id, msg) ==
    LET old == st.slots[endpoint]
        st1 == DiscardPending(st, endpoint)
        con == bsc_mgcp_find_con(st1, endpoint)
        b == sccp_bsc[con]
        bsc_endp == st1.sccp[con].bsc_endp
        bsc_msg == bsc_mgcp_rewrite(msg, bsc_endp, SourceAddr, BtsLocalPort(endpoint))
        st2 == [st1 EXCEPT !.slots[endpoint] =
                   [transaction_id |-> transaction_id, transaction_state |-> state,
                    bsc |-> b]]
        written == Msg(bsc_msg.len, bsc_msg.lines)
        at(rc, note, new) ==
            [rc |-> rc, note |-> note, st |-> new, con |-> con,
             discarded |-> old.transaction_id]
    IN  IF con = 0
        THEN at(IF state = "CRCX" THEN "REJECT" ELSE "CONT", "no con", st1)
        ELSE IF ~bsc_msg.ok THEN at("CONT", "no patch", st1)
        ELSE IF state = "CRCX"
        THEN at("DEFER", "ok",
                SendBsc(SendBsc(st2, b, written), b, MdcxMsg(bsc_endp, endpoint)))
        ELSE IF state = "DLCX" THEN at("CONT", "ok", bsc_mgcp_dlcx(st2, con))
        ELSE at("DEFER", "ok", SendBsc(st2, b, written))

(* ------------------------------------------------------------------ *)
(* The state machine                                                    *)
(* ------------------------------------------------------------------ *)

\* what is kept of the last action: its name, its return value, the exit it
\* took (note), the SCCP connection, BSC, trunk endpoint, verb and transaction
\* id it was called with or resolved, and a value: the pending transaction id
\* bsc_mgcp_policy_cb
\* discarded, the connection identifier bsc_mgcp_forward extracted, the number
\* of rate_ctr_inc calls of bsc_mgcp_clear_endpoints_for
Op(name, rc, note, s, b, endpoint, verb, tid, val) ==
    [name |-> name, rc |-> rc, note |-> note, sccp |-> s, bsc |-> b,
     endpoint |-> endpoint, verb |-> verb, tid |-> tid, val |-> val]

\* the state after bsc_mgcp_nat_init, with every SCCP connection created
\* (bsc_mgcp_init) on the BSC that owner gives it
InitWith(owner) ==
    /\ sccp = [s \in Sccps |-> bsc_mgcp_init]
    /\ sccp_bsc = owner
    /\ bsc = [b \in Bscs |-> FreshBsc]
    /\ bsc_endpoints = [i \in Endpoints |-> EmptySlot]
    /\ trunk_out = <<>>
    /\ bsc_out = <<>>
    /\ agent_out = <<>>
    /\ bssmap = <<>>
    /\ rewritten = <<>>
    /\ op = Op("init", 0, "none", 0, 0, 0, "none", 0, 0)

\* the SCCP connections spread over the BSCs: connection 1 on BSC 1, 2 on BSC 2, ...
Init == InitWith([s \in Sccps |-> ((s - 1) % NumBsc) + 1])

\* all SCCP connections on BSC 1
InitSameBsc == InitWith([s \in Sccps |-> 1])

\* all SCCP connections on the last BSC, the one with MaxEndpointsOther
InitSmallBsc == InitWith([s \in Sccps |-> NumBsc])

Install(st) ==
    /\ sccp' = st.sccp
    /\ bsc' = st.bsc
    /\ bsc_endpoints' = st.slots
    /\ trunk_out' = st.tout
    /\ bsc_out' = st.bout
    /\ agent_out' = st.aout
    /\ UNCHANGED <<sccp_bsc, rewritten>>

\* the MSC's BSSMAP ASSIGNMENT REQUEST for SCCP connection s
AssignPatch(s, msg) ==
    LET r == bsc_mgcp_assign_patch(Cur, s, msg)
    IN  /\ Install(r.st)
        /\ bssmap' = <<Bytes(msg), Bytes(r.msg)>>
        /\ op' = Op("assign", r.rc, r.note, s, sccp_bsc[s], r.endp, "none", 0, 0)

\* the session teardown when the SCCP connection is released
Dlcx(s) ==
    /\ Install(bsc_mgcp_dlcx(Cur, s))
    /\ bssmap' = <<>>
    /\ op' = Op("dlcx", 0, "none", s, sccp_bsc[s], 0, "none", 0, 0)

\* the MGCP parser calls the policy callback for a verb of the Call Agent
PolicyCb(endpoint, state, tid, msg) ==
    LET r == bsc_mgcp_policy_cb(Cur, endpoint, state, tid, msg)
    IN  /\ Install(r.st)
        /\ bssmap' = <<>>
        /\ op' = Op("policy", r.rc, r.note, r.con, 0, endpoint, state, tid, r.discarded)

\* a message of BSC b arrives
Forward(b, msg) ==
    LET r == bsc_mgcp_forward(Cur, b, msg)
    IN  /\ Install(r.st)
        /\ bssmap' = <<>>
        /\ op' = Op("forward", 0, r.note, 0, b, r.endpoint, "none", r.tid, r.ci)

\* the connection of BSC b is lost
ClearEndpointsFor(b) ==
    /\ LET r == bsc_mgcp_clear_endpoints_for(Cur, b)
       IN  /\ Install(r.st)
           /\ bssmap' = <<>>
           /\ op' = Op("clear", 0, "none", 0, b, 0, "none", 0, r.ctr)

Next ==
    \/ \E s \in Sccps : \E msg \in AssignMsgs(s) : AssignPatch(s, msg)
    \/ \E s \in Sccps : Dlcx(s)
    \/ \E endpoint \in Endpoints, state \in Verbs, tid \in Tids :
           \E msg \in Requests(state, tid, endpoint) :
               PolicyCb(endpoint, state, tid, msg)
    \/ \E b \in Bscs : \E msg \in Replies(b) : Forward(b, msg)
    \/ \E b \in Bscs : ClearEndpointsFor(b)

Spec == Init /\ [][Next]_vars

SpecSameBsc == InitSameBsc /\ [][Next]_vars

SpecSmallBsc == InitSmallBsc /\ [][Next]_vars

----------------------------------------------------------------------------
\* The allocator on its own: bsc_assign_endpoint applied to a BSC connection in
\* any state a run of assignments and teardowns can leave it in.

\* the values of max_endpoints: none, one, a few, up to and past one multiplex,
\* up to and past two multiplexes
AllocMaxEndpoints == {0, 1, 2, 3, 4, 31, 32, 33, 34, 35, 64, 65}

\* the endpoints bsc_assign_endpoint has handed out with this max_endpoints:
\* below max_endpoints and on a timeslot 1..30, and endpoint 1 which the wrap to
\* (0, 1) of line 136 reaches whatever max_endpoints is
HandedOut(max_endpoints) ==
    {e \in 1..(max_endpoints - 1) : e % 32 \in 1..30}
        \cup (IF max_endpoints >= 1 THEN {1} ELSE {})

\* the endpoints whose status byte and cursor position the initial states vary
AllocVaried(max_endpoints) ==
    HandedOut(max_endpoints) \cap {1, 2, 3, 29, 30, 33, 34, 61, 62}

\* the status arrays: every endpoint handed out is in use but at most two, or
\* none is but at most two
AllocStatus(max_endpoints) ==
    LET few == {f \in SUBSET AllocVaried(max_endpoints) : Cardinality(f) <= 2}
        zero == ZeroStatus(bsc_mgcp_nr_multiplexes(max_endpoints))
    IN  {[i \in DOMAIN zero |-> IF i \in f THEN 1 ELSE 0] : f \in few}
        \cup {[i \in DOMAIN zero |->
                   IF i \in HandedOut(max_endpoints) \ f THEN 1 ELSE 0] : f \in few}

\* a BSC connection after bsc_init_endps_if_needed: the cursor is 0 while nothing
\* was ever handed out, and the endpoint handed out last afterwards
AllocBscs ==
    UNION {{[status |-> st, last_endpoint |-> c, max_endpoints |-> m,
             number_multiplexes |-> bsc_mgcp_nr_multiplexes(m)] :
               st \in AllocStatus(m),
               c \in AllocVaried(m)} : m \in AllocMaxEndpoints}
    \cup {[status |-> ZeroStatus(bsc_mgcp_nr_multiplexes(m)), last_endpoint |-> 0,
            max_endpoints |-> m, number_multiplexes |-> bsc_mgcp_nr_multiplexes(m)] :
               m \in AllocMaxEndpoints}

InitAlloc ==
    /\ sccp = [s \in Sccps |-> bsc_mgcp_init]
    /\ sccp_bsc = [s \in Sccps |-> 1]
    /\ \E con \in AllocBscs : bsc = [b \in Bscs |-> IF b = 1 THEN con ELSE FreshBsc]
    /\ bsc_endpoints = [i \in Endpoints |-> EmptySlot]
    /\ trunk_out = <<>>
    /\ bsc_out = <<>>
    /\ agent_out = <<>>
    /\ bssmap = <<>>
    /\ rewritten = <<>>
    /\ op = Op("init", 0, "none", 0, 0, 0, "none", 0, 0)

\* bsc_assign_endpoint(bsc, con) for SCCP connection 1; val is the endpoint
AssignEndpoint ==
    /\ op.name = "init"
    /\ LET r == bsc_assign_endpoint(Cur, 1)
       IN  /\ Install(r.st)
           /\ bssmap' = <<>>
           /\ op' = Op("alloc", r.rc, "none", 1, 1, 0, "none", 0, r.st.sccp[1].bsc_endp)

NextAlloc == AssignEndpoint

SpecAlloc == InitAlloc /\ [][NextAlloc]_vars

----------------------------------------------------------------------------
\* The CIC on its own: create_cic applied to an endpoint, the CIC stored in a
\* message as bsc_mgcp_assign_patch stores it, and read back as it reads it.

\* the multiplexes of the endpoints: the first ones, the last ones a uint8_t
\* holds, the first ones it does not, the last one eleven bits hold
CicMultiplexes == {0, 1, 2, 31, 127, 255, 256, 257, 2047}

\* the timeslots of the endpoints
CicTimeslots == 1..30

InitCic ==
    /\ sccp = [s \in Sccps |-> bsc_mgcp_init]
    /\ sccp_bsc = [s \in Sccps |-> 1]
    /\ bsc = [b \in Bscs |-> FreshBsc]
    /\ bsc_endpoints = [i \in Endpoints |-> EmptySlot]
    /\ trunk_out = <<>>
    /\ bsc_out = <<>>
    /\ agent_out = <<>>
    /\ bssmap = <<>>
    /\ rewritten = <<>>
    /\ \E multiplex \in CicMultiplexes, timeslot \in CicTimeslots :
           op = Op("init", 0, "none", 0, 0,
                   mgcp_timeslot_to_endpoint(multiplex, timeslot), "none", 0, 0)

\* the CIC of endpoint op.endpoint is written into a message (lines 228-230);
\* val is the endpoint lines 192-196 get from the message
CicRoundTrip ==
    /\ op.name = "init"
    /\ LET before == Bssmap(TRUE, 10, htons(0), "assignment")
           after == PatchCic(before, create_cic(op.endpoint))
           pos == DecodeCic(ntohs(after.cic))
       IN  /\ bssmap' = <<Bytes(before), Bytes(after)>>
           /\ op' = Op("cic", 0, "none", 0, 0, op.endpoint, "none", 0,
                       mgcp_timeslot_to_endpoint(pos.multiplex, pos.timeslot))
    /\ UNCHANGED <<sccp, sccp_bsc, bsc, bsc_endpoints, trunk_out, bsc_out, agent_out,
                   rewritten>>

NextCic == CicRoundTrip

SpecCic == InitCic /\ [][NextCic]_vars

----------------------------------------------------------------------------
\* The rewriter on its own: bsc_mgcp_rewrite applied to a message, and applied
\* again to its output with the same endpoint, ip and port.

\* the most lines of an input
MaxLines == 3

\* the lines of the inputs: verb lines with and without a second token, SDP
\* lines with and without CR, with payloads that differ, that is -1 and that
\* does not scan, an a=fmtp: line and lines copied as they are
RewriteInputLines ==
    {VerbLine("CRCX", 1, 1), VerbLine("MDCX", 0, 1), IpLine(<<1, 1, 1, 1>>),
     AudioLine(4000, 8, TRUE), [AudioLine(4000, 3, TRUE) EXCEPT !.cr = FALSE],
     AudioLine(4000, -1, TRUE), AudioLine(4000, 8, FALSE),
     FmtpLine(8, TRUE), OtherLine("", TRUE), OtherLine("Z: noanswer", FALSE)}

RECURSIVE LinesUpTo(_)
LinesUpTo(n) ==
    IF n = 0 THEN {<<>>}
    ELSE LinesUpTo(n - 1)
             \cup {Append(lines, line) : lines \in LinesUpTo(n - 1), line \in RewriteInputLines}

\* the bytes of the input in lines that are copied and not listed: none, and
\* so many that an a=fmtp: line more takes the message over MaxRewriteLen
RewritePads == {0, MaxRewriteLen - 30}

\* the inputs: with the last line terminated by LF or not
RewriteInputs ==
    {[len |-> pad + LinesLen([lines |-> lines, lf |-> lf]), lines |-> lines, lf |-> lf] :
         lines \in LinesUpTo(MaxLines), lf \in BOOLEAN, pad \in RewritePads}

\* the endpoint bsc_mgcp_forward passes, and one of bsc_mgcp_policy_cb
RewriteEndpoints == {-1, 2}

InitRewrite ==
    /\ sccp = [s \in Sccps |-> bsc_mgcp_init]
    /\ sccp_bsc = [s \in Sccps |-> 1]
    /\ bsc = [b \in Bscs |-> FreshBsc]
    /\ bsc_endpoints = [i \in Endpoints |-> EmptySlot]
    /\ trunk_out = <<>>
    /\ bsc_out = <<>>
    /\ agent_out = <<>>
    /\ bssmap = <<>>
    /\ \E input \in RewriteInputs, endpoint \in RewriteEndpoints :
           /\ rewritten = <<input>>
           /\ op = Op("init", 0, "none", 0, 0, endpoint, "none", 0, 0)

\* bsc_mgcp_rewrite on the message rewritten last, with endpoint op.endpoint,
\* the source address and the port of trunk endpoint 1
RewriteStep(name) ==
    LET input == rewritten[Len(rewritten)]
        output == bsc_mgcp_rewrite(input, op.endpoint, SourceAddr, BtsLocalPort(1))
    IN  /\ rewritten' = IF output.ok
                        THEN Append(rewritten, Msg(output.len, output.lines))
                        ELSE rewritten
        /\ op' = Op(name, IF output.ok THEN 0 ELSE -1, "none", 0, 0, op.endpoint,
                    "none", 0, 0)
        /\ UNCHANGED <<sccp, sccp_bsc, bsc, bsc_endpoints, trunk_out, bsc_out,
                       agent_out, bssmap>>

\* the input is rewritten
Rewrite == op.name = "init" /\ RewriteStep("rewrite")

\* the output is rewritten again
RewriteAgain == op.name = "rewrite" /\ op.rc = 0 /\ RewriteStep("again")

NextRewrite == Rewrite \/ RewriteAgain

SpecRewrite == InitRewrite /\ [][NextRewrite]_vars

(* ------------------------------------------------------------------ *)
(* Properties                                                           *)
(* ------------------------------------------------------------------ *)

\* the SCCP connections of BSC b that hold its endpoint e
Holders(b, e) == {s \in Sccps : sccp_bsc[s] = b /\ sccp[s].bsc_endp = e}

\* C1: after any sequence of assignments, teardowns and DLCX verbs no two SCCP
\* connections of the same BSC hold the same bsc_endp at the same time (that
\* the endpoint of a connection torn down is handed out again is C1Reallocated)
C1NoEndpointTwice ==
    \A s, r \in Sccps :
        (s # r /\ sccp_bsc[s] = sccp_bsc[r] /\ sccp[s].bsc_endp # -1)
            => sccp[s].bsc_endp # sccp[r].bsc_endp

\* bsc_assign_endpoint has just returned endpoint 1 while another connection of
\* the BSC holds endpoint 2: the cursor starts at 0, so endpoint 1 was held
\* before endpoint 2 was handed out, was freed by a teardown and is returned again
C1Reallocated ==
    /\ op.name = "assign" /\ op.rc = 0
    /\ sccp[op.sccp].bsc_endp = 1
    /\ \E r \in Sccps : /\ r # op.sccp
                         /\ sccp_bsc[r] = sccp_bsc[op.sccp]
                         /\ sccp[r].bsc_endp = 2

\* C2 as stated: in every reachable state every pending-transaction slot has
\* its transaction_id present iff its transaction_state is not none iff its bsc
\* is bound
C2SlotThreeWay ==
    \A i \in Endpoints :
        /\ bsc_endpoints[i].transaction_id # NULL
               <=> bsc_endpoints[i].transaction_state # "none"
        /\ bsc_endpoints[i].transaction_state # "none"
               <=> bsc_endpoints[i].bsc # NULL

\* C2 amended: in every reachable state every pending-transaction slot has its
\* transaction_id present iff its transaction_state is not none, and a slot
\* with a transaction_id has its bsc bound (the bsc stays bound after the
\* reply cleared id and state)
C2SlotIdState ==
    \A i \in Endpoints :
        /\ bsc_endpoints[i].transaction_id # NULL
               <=> bsc_endpoints[i].transaction_state # "none"
        /\ bsc_endpoints[i].transaction_id # NULL => bsc_endpoints[i].bsc # NULL

\* a reply was forwarded: the slot it matched has no transaction id and no state
\* and still refers to the BSC
C2ClearedSlotKeepsBsc ==
    /\ op.name = "forward" /\ op.note = "forwarded"
    /\ bsc_endpoints[op.endpoint].transaction_id = NULL
    /\ bsc_endpoints[op.endpoint].transaction_state = "none"
    /\ bsc_endpoints[op.endpoint].bsc = op.bsc

\* C3: in every reachable state, also after bsc_mgcp_assign_patch failed, every
\* SCCP connection has msc_endp = -1 and bsc_endp = -1, or both bound to an
\* endpoint >= 1 within range
C3BothOrNeither ==
    \A s \in Sccps :
        \/ sccp[s] = bsc_mgcp_init
        \/ /\ sccp[s].msc_endp \in 1..(NumberEndpoints - 1)
           /\ sccp[s].bsc_endp \in 1..(CfgMaxEndpoints(sccp_bsc[s]) - 1)

\* C4: for every BSC whose status array exists the status byte of endpoint e is
\* 1 exactly when some SCCP connection of that BSC has bsc_endp = e, and 0
\* otherwise, also after a second assignment of a bound connection and after a
\* failed assignment
C4StatusIsHeld ==
    \A b \in Bscs :
        bsc[b].status # NoStatus =>
            \A e \in DOMAIN bsc[b].status :
                bsc[b].status[e] = IF Holders(b, e) # {} THEN 1 ELSE 0

\* the message bsc_mgcp_forward queued is the response with transaction id tid,
\* rewritten for trunk endpoint i: the NAT's address and the endpoint's net_end
\* port in its SDP lines
IsRewrittenReply(m, tid, i) ==
    /\ m.lines[1] = StatusLine(tid)
    /\ \A k \in 1..Len(m.lines) :
           /\ m.lines[k].t = "c" => m.lines[k].ip = SourceAddr
           /\ m.lines[k].t = "m" => m.lines[k].port = NetLocalPort(i)

\* the exits of bsc_mgcp_forward after it found the slot of the response
Matched == {"no ci", "no rewrite", "forwarded"}

\* a step of bsc_mgcp_forward that found no slot changes nothing and sends nothing
DroppedUnchanged ==
    /\ UNCHANGED <<sccp, bsc, bsc_endpoints>>
    /\ bsc_out' = <<>> /\ agent_out' = <<>> /\ trunk_out' = <<>>

\* C5 as stated: a response without connection identifier that matches a slot
\* in state CRCX runs the session teardown for the session of the endpoint: the
\* status byte of its bsc_endp is cleared, a DLCX is sent to the BSC, the slot
\* is freed, msc_endp and bsc_endp are reset to -1, nothing goes to the Call Agent
C5TeardownRun ==
    [][(/\ op'.name = "forward" /\ op'.note = "no ci"
        /\ bsc_endpoints[op'.endpoint].transaction_state = "CRCX") =>
          LET i == op'.endpoint
              con == bsc_mgcp_find_con(Cur, i)
          IN  /\ agent_out' = <<>>
              /\ bsc_endpoints'[i] = EmptySlot
              /\ con # 0 =>
                   /\ sccp'[con] = bsc_mgcp_init
                   /\ bsc_out' = <<[to |-> sccp_bsc[con],
                                    msg |-> DlcxMsg(sccp[con].bsc_endp)]>>
                   /\ sccp[con].bsc_endp # -1 =>
                          bsc'[sccp_bsc[con]].status[sccp[con].bsc_endp] = 0]_vars

\* C5 amended: a response without connection identifier that matches a slot in
\* state CRCX sends one DLCX for the bsc_endp of the session that has the
\* endpoint as msc_endp to the replying BSC (none when there is no such session
\* or it belongs to another BSC), frees the slot and releases the MGCP endpoint;
\* the status arrays and the sessions stay as they are and nothing goes to the
\* Call Agent
C5DlcxAndFree ==
    [][(/\ op'.name = "forward" /\ op'.note = "no ci"
        /\ bsc_endpoints[op'.endpoint].transaction_state = "CRCX") =>
          LET i == op'.endpoint
              con == bsc_mgcp_find_con(Cur, i)
          IN  /\ agent_out' = <<>>
              /\ bsc_endpoints'[i] = EmptySlot
              /\ \A j \in Endpoints \ {i} : bsc_endpoints'[j] = bsc_endpoints[j]
              /\ trunk_out' = <<SetCi(i, CI_UNUSED), FreeEndp(i)>>
              /\ UNCHANGED <<sccp, bsc>>
              /\ bsc_out' = IF con # 0 /\ sccp_bsc[con] = op'.bsc
                            THEN <<[to |-> op'.bsc, msg |-> DlcxMsg(sccp[con].bsc_endp)]>>
                            ELSE <<>>]_vars

\* a response without connection identifier was matched: the DLCX for the
\* session's bsc_endp went to the BSC, the slot is free, the session is still
\* bound and its status byte still 1
C5DlcxSentSessionKept ==
    /\ op.name = "forward" /\ op.note = "no ci"
    /\ bsc_endpoints[op.endpoint] = EmptySlot
    /\ \E s \in Sccps :
           /\ sccp[s].msc_endp = op.endpoint /\ sccp[s].bsc_endp # -1
           /\ sccp_bsc[s] = op.bsc
           /\ bsc_out = <<[to |-> op.bsc, msg |-> DlcxMsg(sccp[s].bsc_endp)]>>
           /\ bsc[op.bsc].status[sccp[s].bsc_endp] = 1

\* C6 as stated: a response of at most 2000 bytes with a transaction id that
\* matches a slot of the BSC and with a connection identifier has the
\* identifier stored on the endpoint, the slot's transaction id and state
\* cleared, and exactly one rewritten message queued for the Call Agent
C6ForwardsOne ==
    (op.name = "forward" /\ op.note \in {"no rewrite", "forwarded"}) =>
        /\ op.val # CI_UNUSED
        /\ trunk_out = <<SetCi(op.endpoint, op.val)>>
        /\ bsc_endpoints[op.endpoint].transaction_id = NULL
        /\ bsc_endpoints[op.endpoint].transaction_state = "none"
        /\ Len(agent_out) = 1
        /\ IsRewrittenReply(agent_out[1], op.tid, op.endpoint)

\* C6 amended: such a response has the identifier stored on the endpoint and
\* the slot's transaction id and state cleared; exactly one rewritten message
\* is queued for the Call Agent when bsc_mgcp_rewrite accepts the response, and
\* none when it refuses it
C6StoresClearsForwards ==
    (op.name = "forward" /\ op.note \in {"no rewrite", "forwarded"}) =>
        /\ op.val # CI_UNUSED
        /\ trunk_out = <<SetCi(op.endpoint, op.val)>>
        /\ bsc_endpoints[op.endpoint].transaction_id = NULL
        /\ bsc_endpoints[op.endpoint].transaction_state = "none"
        /\ bsc_out = <<>>
        /\ IF op.note = "forwarded"
           THEN /\ Len(agent_out) = 1
                /\ IsRewrittenReply(agent_out[1], op.tid, op.endpoint)
           ELSE agent_out = <<>>

\* a response with connection identifier SomeCi was forwarded
C6Forwarded ==
    /\ op.name = "forward" /\ op.note = "forwarded" /\ op.val = SomeCi
    /\ trunk_out = <<SetCi(op.endpoint, SomeCi)>>
    /\ Len(agent_out) = 1

\* C7 as stated: after a response was matched, a duplicate from the same BSC
\* with the same transaction id finds no slot
C7DuplicateFindsNoSlot ==
    (op.name = "forward" /\ op.note \in Matched) =>
        MatchSlot(Cur, op.bsc, op.tid) = 0

\* C7 amended: a response is queued for the Call Agent only for a slot that
\* holds its transaction id for its BSC, at most one per response, and the slot
\* loses the transaction id; a duplicate cannot match that slot again: it finds
\* no slot, is dropped and changes no state, unless the slot of another
\* endpoint holds the same transaction id for that BSC
C7OneReplyPerTransaction ==
    [][op'.name = "forward" =>
          IF op'.note \in Matched
          THEN LET i == op'.endpoint
               IN  /\ bsc_endpoints[i].transaction_id = op'.tid
                   /\ bsc_endpoints[i].bsc = op'.bsc
                   /\ bsc_endpoints'[i].transaction_id = NULL
                   /\ Len(agent_out') <= 1
                   /\ MatchSlot(Cur', op'.bsc, op'.tid) # i
                   /\ MatchSlot(Cur', op'.bsc, op'.tid) # 0 =>
                          bsc_endpoints[MatchSlot(Cur', op'.bsc, op'.tid)]
                              = bsc_endpoints'[MatchSlot(Cur', op'.bsc, op'.tid)]
          ELSE DroppedUnchanged]_vars

\* a response found no slot at a BSC that has a slot an earlier response cleared
C7DuplicateDropped ==
    /\ op.name = "forward" /\ op.note = "no endpoint" /\ op.tid # 0
    /\ agent_out = <<>>
    /\ \E i \in Endpoints : /\ bsc_endpoints[i].bsc = op.bsc
                            /\ bsc_endpoints[i].transaction_id = NULL

\* C8 as stated: a verb for endpoint e while transaction t1 is pending on e
\* discards the old slot content and, when deferred, replaces it by the new
\* transaction id t2 # t1; a response of the BSC of the old transaction that
\* carries t1 then matches no slot
C8OldReplyFindsNoSlot ==
    [][(/\ op'.name = "policy"
        /\ bsc_endpoints[op'.endpoint].transaction_id # NULL
        /\ op'.tid # bsc_endpoints[op'.endpoint].transaction_id) =>
          LET e == op'.endpoint
              t1 == bsc_endpoints[e].transaction_id
          IN  /\ bsc_endpoints'[e].transaction_id # t1
              /\ op'.rc = "DEFER" => bsc_endpoints'[e].transaction_id = op'.tid
              /\ MatchSlot(Cur', bsc_endpoints[e].bsc, t1) = 0]_vars

\* C8 amended: a verb for endpoint e while transaction t1 is pending on e
\* discards the old slot content and, when deferred, replaces it by the new
\* transaction id t2 # t1; a response carrying t1 does not match the slot of e
\* any more: it matches no slot, is not forwarded and changes no state, unless
\* the slot of another endpoint holds t1 for its BSC
C8OldTransactionDiscarded ==
    [][/\ (/\ op'.name = "policy"
           /\ bsc_endpoints[op'.endpoint].transaction_id # NULL
           /\ op'.tid # bsc_endpoints[op'.endpoint].transaction_id) =>
             LET e == op'.endpoint
                 t1 == bsc_endpoints[e].transaction_id
             IN  /\ op'.val = t1
                 /\ bsc_endpoints'[e].transaction_id # t1
                 /\ op'.rc = "DEFER" =>
                        bsc_endpoints'[e].transaction_id = op'.tid
                 /\ \A b \in Bscs : MatchSlot(Cur', b, t1) # e
       /\ (op'.name = "forward" /\ op'.note = "no endpoint") =>
             DroppedUnchanged]_vars

\* a deferred verb replaced a pending transaction with another id
C8Replaced ==
    /\ op.name = "policy" /\ op.rc = "DEFER"
    /\ op.val # NULL /\ op.val # op.tid
    /\ bsc_endpoints[op.endpoint].transaction_id = op.tid

\* what C9 says of a DLCX of the Call Agent for the endpoint of session con:
\* CONTINUE, exactly one message to the BSC, the DLCX 26 for bsc_endp with
\* Z: noanswer, the status byte of bsc_endp cleared, the slot of the endpoint
\* empty, the session reset to (-1, -1)
DlcxTornDown(con) ==
    /\ op'.rc = "CONT"
    /\ bsc_out' = <<[to |-> sccp_bsc[con], msg |-> DlcxMsg(sccp[con].bsc_endp)]>>
    /\ bsc'[sccp_bsc[con]].status[sccp[con].bsc_endp] = 0
    /\ bsc_endpoints'[op'.endpoint] = EmptySlot
    /\ sccp'[con] = bsc_mgcp_init

\* C9 as stated: every DLCX of the Call Agent for an endpoint bound to a
\* session (msc_endp = endpoint, bsc_endp bound, status array present) tears
\* the session down as DlcxTornDown says
C9DlcxTearsDown ==
    [][(/\ op'.name = "policy" /\ op'.verb = "DLCX" /\ op'.sccp # 0
        /\ sccp[op'.sccp].bsc_endp # -1
        /\ bsc[sccp_bsc[op'.sccp]].status # NoStatus) =>
          DlcxTornDown(op'.sccp)]_vars

\* C9 amended: a DLCX of the Call Agent that bsc_mgcp_rewrite accepts, for an
\* endpoint bound to a session, tears the session down as DlcxTornDown says; a
\* DLCX the rewriter refuses returns CONTINUE and changes nothing but the slot
\* of the endpoint, which is empty afterwards
C9AcceptedDlcxTearsDown ==
    [][(/\ op'.name = "policy" /\ op'.verb = "DLCX" /\ op'.sccp # 0
        /\ sccp[op'.sccp].bsc_endp # -1
        /\ bsc[sccp_bsc[op'.sccp]].status # NoStatus) =>
          IF op'.note = "ok" THEN DlcxTornDown(op'.sccp)
          ELSE /\ op'.rc = "CONT"
               /\ bsc_out' = <<>>
               /\ UNCHANGED <<sccp, bsc>>
               /\ bsc_endpoints'[op'.endpoint] = EmptySlot]_vars

\* a DLCX of the Call Agent tore a session down: the DLCX for its bsc_endp is
\* the one message to the BSC
C9TornDown ==
    /\ op.name = "policy" /\ op.verb = "DLCX" /\ op.rc = "CONT" /\ op.note = "ok"
    /\ sccp[op.sccp] = bsc_mgcp_init
    /\ bsc_endpoints[op.endpoint] = EmptySlot
    /\ \E e \in 1..(CfgMaxEndpoints(sccp_bsc[op.sccp]) - 1) :
           /\ bsc_out = <<[to |-> sccp_bsc[op.sccp], msg |-> DlcxMsg(e)]>>
           /\ bsc[sccp_bsc[op.sccp]].status[e] = 0

\* C10: bsc_mgcp_policy_cb returns DEFER iff on return the slot of the endpoint
\* holds the transaction id, the verb and the session's BSC; that is exactly
\* for CRCX and MDCX on an endpoint with a bound session and a successful
\* rewrite; when it returns REJECT or CONTINUE the slot of the endpoint is empty
C10DeferIffSlot ==
    op.name = "policy" =>
        /\ op.rc = "DEFER" <=>
               /\ op.sccp # 0
               /\ bsc_endpoints[op.endpoint] =
                      [transaction_id |-> op.tid, transaction_state |-> op.verb,
                       bsc |-> sccp_bsc[op.sccp]]
        /\ op.rc = "DEFER" <=>
               /\ op.verb \in {"CRCX", "MDCX"}
               /\ op.sccp # 0
               /\ sccp[op.sccp].msc_endp = op.endpoint
               /\ sccp[op.sccp].bsc_endp # -1
               /\ op.note = "ok"
        /\ op.rc \in {"REJECT", "CONT"} => bsc_endpoints[op.endpoint] = EmptySlot

\* C11: a verb of the Call Agent for an endpoint that no SCCP connection has
\* as msc_endp returns REJECT for CRCX and CONTINUE for DLCX and MDCX, sends
\* nothing to any BSC and changes no status array and no SCCP connection
C11UnknownEndpoint ==
    [][(/\ op'.name = "policy"
        /\ \A s \in Sccps : sccp[s].msc_endp # op'.endpoint) =>
          /\ op'.rc = IF op'.verb = "CRCX" THEN "REJECT" ELSE "CONT"
          /\ bsc_out' = <<>>
          /\ UNCHANGED <<sccp, bsc>>]_vars

\* a CRCX for an endpoint without SCCP connection was rejected while a
\* connection is bound to another endpoint
C11Rejected ==
    /\ op.name = "policy" /\ op.verb = "CRCX" /\ op.rc = "REJECT"
    /\ bsc_out = <<>>
    /\ \A s \in Sccps : sccp[s].msc_endp # op.endpoint
    /\ \E s \in Sccps : sccp[s].bsc_endp # -1

\* C12: bsc_mgcp_assign_patch for session B with a CIC whose upstream endpoint
\* is the msc_endp of another session A tears A down before B is bound: the
\* status byte of A's bsc_endp is cleared (B may claim it again in the same
\* call), the slot of the endpoint is freed, A is reset to (-1, -1) and exactly
\* one DLCX, for A's bsc_endp, goes to A's BSC
C12StaleTornDown ==
    [][op'.name = "assign" =>
          \A a \in Sccps \ {op'.sccp} :
              sccp[a].msc_endp = op'.endpoint =>
                  LET b == sccp_bsc[a]
                      e == sccp[a].bsc_endp
                  IN  /\ sccp'[a] = bsc_mgcp_init
                      /\ bsc_endpoints'[op'.endpoint] = EmptySlot
                      /\ bsc_out' = <<[to |-> b, msg |-> DlcxMsg(e)]>>
                      /\ e # -1 =>
                             \/ bsc'[b].status[e] = 0
                             \/ /\ sccp_bsc[op'.sccp] = b
                                /\ sccp'[op'.sccp].bsc_endp = e]_vars

\* the status bytes of BSC b that are in use
UsedStatus(b) ==
    IF bsc[b].status = NoStatus THEN {}
    ELSE {e \in DOMAIN bsc[b].status : bsc[b].status[e] # 0}

\* an assignment that reaches the allocator of a BSC with max_endpoints = 2 and
\* tears no stale session down
SmallBscAssign ==
    /\ op'.name = "assign" /\ op'.note \in {"ok", "no endpoint"}
    /\ CfgMaxEndpoints(op'.bsc) = 2
    /\ \A a \in Sccps : sccp[a].msc_endp # op'.endpoint

\* C13 as stated: on a BSC with max_endpoints = 2 on which one assignment has
\* succeeded, the assignment for a second, unbound session with another CIC and
\* without a teardown succeeds as well.
C13TwoSucceed ==
    [][(/\ SmallBscAssign
        /\ sccp[op'.sccp] = bsc_mgcp_init
        /\ Cardinality(UsedStatus(op'.bsc)) = 1) => op'.rc = 0]_vars

\* C13 amended: on a BSC with max_endpoints = 2 an assignment that finds no
\* status byte in use succeeds with BSC endpoint 1, and one that finds endpoint
\* 1 in use fails in the allocator: bsc_mgcp_assign_patch returns -1 and the
\* status array is as before.
C13OneSucceeds ==
    [][SmallBscAssign =>
          IF UsedStatus(op'.bsc) = {}
          THEN /\ op'.rc = 0
               /\ sccp'[op'.sccp].bsc_endp = 1
          ELSE /\ UsedStatus(op'.bsc) = {1}
               /\ op'.rc = -1 /\ op'.note = "no endpoint"
               /\ bsc'[op'.bsc].status = bsc[op'.bsc].status]_vars

\* the second session was refused by the allocator while the first holds
\* endpoint 1 of the BSC with max_endpoints = 2
C13SecondRefused ==
    /\ op.name = "assign" /\ op.rc = -1 /\ op.note = "no endpoint"
    /\ CfgMaxEndpoints(op.bsc) = 2
    /\ sccp[op.sccp].bsc_endp = -1
    /\ \E a \in Sccps \ {op.sccp} :
           /\ sccp_bsc[a] = op.bsc
           /\ sccp[a].bsc_endp = 1
           /\ sccp[a].msc_endp # op.endpoint

\* the allocatable endpoints: below max_endpoints, on a timeslot 1..30
Allocatable(max_endpoints) == {e \in 1..(max_endpoints - 1) : e % 32 \in 1..30}

\* the place of endpoint e in the cyclic order that starts right after cursor
CyclicRank(e, cursor) == IF e > cursor THEN e - cursor ELSE e - cursor + 32 * 1024

\* the first one of a non-empty set of endpoints in cyclic order after cursor
FirstAfter(free, cursor) ==
    CHOOSE e \in free : \A f \in free : CyclicRank(e, cursor) <= CyclicRank(f, cursor)

\* what C14 says of one call of the allocator on BSC 1
AllocatorContract ==
    LET con == bsc[1]
        free == {e \in Allocatable(con.max_endpoints) : con.status[e] = 0}
    IN  IF free = {}
        THEN /\ op'.rc = -1
             /\ UNCHANGED <<bsc, sccp>>
        ELSE LET first == FirstAfter(free, con.last_endpoint)
             IN  /\ op'.rc = 0
                 /\ sccp'[1].bsc_endp = first
                 /\ bsc'[1] = [con EXCEPT !.status[first] = 1, !.last_endpoint = first]

\* C14: the allocator returns the first free allocatable slot in cyclic order
\* strictly after last_endpoint, marks it in use and moves last_endpoint to it;
\* it fails if and only if no allocatable slot is free, and then changes nothing.
C14FirstFreeAfterCursor == [][op'.name = "alloc" => AllocatorContract]_vars

\* the same with max_endpoints other than 1
C14FromTwoEndpoints ==
    [][op'.name = "alloc" /\ bsc[1].max_endpoints # 1 => AllocatorContract]_vars

\* a freed endpoint below the cursor was passed over for one above it
C14FreedBelowCursorSkipped ==
    /\ op.name = "alloc" /\ op.rc = 0
    /\ \E e \in Allocatable(bsc[1].max_endpoints) :
           e < op.val /\ bsc[1].status[e] = 0

\* what C15 says of the CIC of endpoint op.endpoint
CicComesBack ==
    /\ DecodeCic(ntohs(bssmap[2].cic)) = mgcp_endpoint_to_timeslot(op.endpoint)
    /\ op.val = op.endpoint

\* C15: decoding the CIC built from a (multiplex, timeslot) pair with timeslot
\* 1..30 yields the same pair, and the CIC of an endpoint decoded and passed
\* through mgcp_timeslot_to_endpoint gives the endpoint back.
C15CicRoundTrip == op.name = "cic" => CicComesBack

\* the same for the multiplexes a uint8_t holds
C15Uint8Multiplex ==
    op.name = "cic" /\ mgcp_endpoint_to_timeslot(op.endpoint).multiplex < 256
        => CicComesBack

\* C16: after a successful bsc_mgcp_assign_patch the CIC element of the message
\* holds create_cic(con->bsc_endp) of the endpoint just allocated, in network byte
\* order, and the rest of the message is as before; after a failed one the whole
\* message is as before.
C16CicPatchedOnSuccess ==
    op.name = "assign" =>
        LET before == bssmap[1]
            after == bssmap[2]
        IN  IF op.rc = 0
            THEN /\ after.cic = htons(create_cic(sccp[op.sccp].bsc_endp))
                 /\ [after EXCEPT !.cic = before.cic] = before
            ELSE after = before

\* a successful assignment changed the CIC of the message
C16CicChanged ==
    /\ op.name = "assign" /\ op.rc = 0
    /\ bssmap[2].cic # bssmap[1].cic
    /\ ntohs(bssmap[2].cic) = sccp[op.sccp].bsc_endp

\* an assignment failed in the allocator and left the CIC of the message alone
C16ExhaustedUnchanged ==
    /\ op.name = "assign" /\ op.rc = -1 /\ op.note = "no endpoint"
    /\ bssmap[2] = bssmap[1]

\* the trunk endpoints whose slot references BSC b
SlotsOf(b) == {i \in Endpoints : bsc_endpoints[i].bsc = b}

\* C17: bsc_mgcp_clear_endpoints_for(b) empties every slot that referenced b
\* and releases its MGCP endpoint, leaves the other slots as they were, and
\* increases the dropped-calls counter by the number of slots that referenced b.
C17ClearsSlotsOfBsc ==
    [][op'.name = "clear" =>
          /\ \A i \in Endpoints :
                 IF i \in SlotsOf(op'.bsc)
                 THEN /\ bsc_endpoints'[i] = EmptySlot
                      /\ \E k \in DOMAIN trunk_out' : trunk_out'[k] = FreeEndp(i)
                 ELSE /\ bsc_endpoints'[i] = bsc_endpoints[i]
                      /\ \A k \in DOMAIN trunk_out' : trunk_out'[k].endpoint # i
          /\ op'.val = Cardinality(SlotsOf(op'.bsc))]_vars

\* a BSC was lost with a call on a trunk endpoint while another BSC keeps its
\* own
C17CallDropped ==
    /\ op.name = "clear" /\ op.val >= 1
    /\ \E i \in Endpoints : bsc_endpoints[i].bsc \notin {NULL, op.bsc}

\* the lines of kind t among lines
LinesOf(lines, t) == {k \in 1..Len(lines) : lines[k].t = t}

\* bsc_mgcp_rewrite has put an a=fmtp: line at the end of its output
AppendedFmtp(input, output) ==
    /\ output.lines # <<>>
    /\ output.lines[Len(output.lines)].t = "fmtp"
    /\ Cardinality(LinesOf(output.lines, "fmtp"))
           = Cardinality(LinesOf(Scanned(input), "fmtp")) + 1

\* C18: bsc_mgcp_rewrite with endpoint -1 leaves the endpoint id of the verb
\* lines alone: every verb line of the output is a line of the input, and so
\* is every other line that is neither a c= nor an m=audio line, but for the
\* a=fmtp: line it appends.
C18NoOverrideKeepsEndpoint ==
    op.name = "rewrite" /\ op.rc = 0 /\ op.endpoint = -1 =>
        LET input == rewritten[1]
            output == rewritten[2]
        IN  \A k \in 1..Len(output.lines) :
                \/ output.lines[k].t \in {"c", "m"}
                \/ \E j \in 1..Len(input.lines) : input.lines[j] = output.lines[k]
                \/ k = Len(output.lines) /\ AppendedFmtp(input, output)

\* C19 as stated: the output ends with an appended a=fmtp: line if and only if
\* the input has an m=audio line that no a=fmtp: line follows; the payload is
\* that of the last m=audio line.
C19AppendIffNoFmtpFollows ==
    op.name = "rewrite" /\ op.rc = 0 =>
        LET input == rewritten[1]
            output == rewritten[2]
            lines == Scanned(input)
        IN  /\ AppendedFmtp(input, output)
               <=> \E i \in LinesOf(lines, "m") :
                       \A j \in LinesOf(lines, "fmtp") : j < i
            /\ AppendedFmtp(input, output) =>
                   output.lines[Len(output.lines)].payload = LastPayload(lines)

\* C19 amended: the output ends with an appended a=fmtp: line if and only if
\* the input has an m=audio line, the payload of the last one is not -1, and
\* the input has no a=fmtp: line at all, before or after it; the line carries
\* the payload of the last m=audio line and the line ending of the last line
\* of the input that LF terminates.
C19AppendIffNoFmtpAtAll ==
    op.name = "rewrite" /\ op.rc = 0 =>
        LET input == rewritten[1]
            output == rewritten[2]
            lines == Scanned(input)
        IN  /\ AppendedFmtp(input, output)
               <=> /\ LinesOf(lines, "m") # {}
                   /\ LastPayload(lines) # -1
                   /\ LinesOf(lines, "fmtp") = {}
            /\ AppendedFmtp(input, output) =>
                   output.lines[Len(output.lines)]
                       = FmtpLine(LastPayload(lines), lines[Len(lines)].cr)

\* an a=fmtp: line before the m=audio line kept the rewriter from appending one
C19PrecedingFmtpSuppresses ==
    /\ op.name = "rewrite" /\ op.rc = 0
    /\ LET lines == Scanned(rewritten[1])
       IN  \E i \in LinesOf(lines, "m") :
               /\ LinesOf(lines, "fmtp") # {}
               /\ \A j \in LinesOf(lines, "fmtp") : j < i
    /\ ~AppendedFmtp(rewritten[1], rewritten[2])

\* an a=fmtp: line was appended for the second of two m=audio lines
C19AppendedForLastAudio ==
    /\ op.name = "rewrite" /\ op.rc = 0
    /\ AppendedFmtp(rewritten[1], rewritten[2])
    /\ Cardinality(LinesOf(rewritten[1].lines, "m")) = 2

\* C20 as stated: rewriting the output of a successful rewrite again with the
\* same endpoint, ip and port succeeds and gives the same output, or the same
\* with one a=fmtp: line appended.
C20RewriteAgainSame ==
    op.name = "again" =>
        /\ op.rc = 0
        /\ \/ rewritten[3] = rewritten[2]
           \/ /\ AppendedFmtp(rewritten[2], rewritten[3])
              /\ SubSeq(rewritten[3].lines, 1, Len(rewritten[2].lines)) = rewritten[2].lines

\* C20 amended: when the output of a successful rewrite is not longer than
\* 4096 - 256 bytes, rewriting it again with the same endpoint, ip and port
\* succeeds and gives the same output, lines and length, with no a=fmtp: line
\* appended; when it is longer, rewriting it again fails.
C20RewriteAgainSameIfShort ==
    op.name = "again" =>
        IF rewritten[2].len <= MaxRewriteLen
        THEN op.rc = 0 /\ rewritten[3] = rewritten[2]
        ELSE op.rc = -1 /\ Len(rewritten) = 2

\* an output that differs from its input, with an a=fmtp: line appended, came
\* out the same when it was rewritten again
C20SameAfterAppend ==
    /\ op.name = "again" /\ op.rc = 0
    /\ AppendedFmtp(rewritten[1], rewritten[2])
    /\ rewritten[3] = rewritten[2]

\* the output with its appended a=fmtp: line was too long to be rewritten again
C20OutputTooLong ==
    /\ op.name = "again" /\ op.rc = -1
    /\ AppendedFmtp(rewritten[1], rewritten[2])

\* the trunk endpoints whose slot holds transaction id tid for BSC b
PendingFor(b, tid) ==
    {i \in Endpoints : /\ bsc_endpoints[i].bsc = b
                       /\ bsc_endpoints[i].transaction_id # NULL
                       /\ bsc_endpoints[i].transaction_id = tid}

\* the trunk endpoints whose slot holds transaction id tid for a BSC other
\* than b
PendingElsewhere(b, tid) ==
    {j \in Endpoints : /\ bsc_endpoints[j].bsc \notin {NULL, b}
                       /\ bsc_endpoints[j].transaction_id # NULL
                       /\ bsc_endpoints[j].transaction_id = tid}

\* C21 as stated: a reply of BSC b whose transaction id is pending for another
\* BSC leaves that slot as it is, sets no CI on that endpoint and is not
\* forwarded to the Call Agent.
C21ForeignNeverForwarded ==
    [][op'.name = "forward" /\ op'.tid # 0 /\ PendingElsewhere(op'.bsc, op'.tid) # {} =>
          /\ \A j \in PendingElsewhere(op'.bsc, op'.tid) :
                 /\ bsc_endpoints'[j] = bsc_endpoints[j]
                 /\ \A k \in DOMAIN trunk_out' : trunk_out'[k].endpoint # j
          /\ agent_out' = <<>>]_vars

\* C21 amended: a reply of BSC b is matched only against the slots whose bsc is
\* b, the lowest endpoint that holds its transaction id winning: the slots of
\* the other BSCs and of no BSC are left as they are and get no CI, only the
\* matched slot and endpoint are written, and the reply is forwarded to the
\* Call Agent only when a slot of b itself holds its transaction id, also when
\* the same id is pending for another BSC.
C21MatchesOwnSlots ==
    [][op'.name = "forward" =>
          LET b == op'.bsc
              own == PendingFor(b, op'.tid)
          IN  /\ \A j \in Endpoints :
                     bsc_endpoints[j].bsc # b =>
                         /\ bsc_endpoints'[j] = bsc_endpoints[j]
                         /\ \A k \in DOMAIN trunk_out' : trunk_out'[k].endpoint # j
              /\ agent_out' # <<>> => op'.tid # 0 /\ own # {}
              /\ op'.tid # 0 /\ own # {} =>
                     /\ op'.endpoint \in own
                     /\ \A i \in own : op'.endpoint <= i
                     /\ \A j \in Endpoints \ {op'.endpoint} :
                            /\ bsc_endpoints'[j] = bsc_endpoints[j]
                            /\ \A k \in DOMAIN trunk_out' : trunk_out'[k].endpoint # j
              /\ op'.tid # 0 /\ own = {} =>
                     /\ op'.note = "no endpoint"
                     /\ bsc_endpoints' = bsc_endpoints
                     /\ trunk_out' = <<>>]_vars

\* a reply was dropped whose transaction id is pending for another BSC only
C21ForeignReplyDropped ==
    /\ op.name = "forward" /\ op.note = "no endpoint" /\ op.tid # 0
    /\ PendingElsewhere(op.bsc, op.tid) # {}
    /\ PendingFor(op.bsc, op.tid) = {}
    /\ agent_out = <<>>

\* the message is the Call Agent's verb rewritten for the BSC: the verb line
\* names BSC endpoint e with the transaction id kept
RewrittenVerb(m, verb, tid, e) ==
    /\ Len(m.lines) >= 1
    /\ m.lines[1] = VerbLine(verb, tid, e)

\* the message is the auxiliary "MDCX 23 <e>@mgw" with "Z: noanswer"
AuxiliaryMdcx(m, e) ==
    /\ Len(m.lines) >= 2
    /\ m.lines[1] = VerbLine("MDCX", 23, e)
    /\ m.lines[2] = OtherLine("Z: noanswer", TRUE)

\* what a CRCX or an MDCX that went through sent: all of it to the BSC of the
\* session, for a CRCX the rewritten CRCX and then the auxiliary MDCX, for an
\* MDCX the rewritten MDCX alone
SentForVerb ==
    LET b == sccp_bsc[op.sccp]
        e == sccp[op.sccp].bsc_endp
    IN  /\ \A k \in DOMAIN bsc_out : bsc_out[k].to = b
        /\ op.verb = "CRCX" =>
               /\ Len(bsc_out) = 2
               /\ RewrittenVerb(bsc_out[1].msg, "CRCX", op.tid, e)
               /\ AuxiliaryMdcx(bsc_out[2].msg, e)
        /\ op.verb = "MDCX" =>
               /\ Len(bsc_out) = 1
               /\ RewrittenVerb(bsc_out[1].msg, "MDCX", op.tid, e)

\* C22 as stated: a CRCX for an endpoint with a bound session sends exactly the
\* rewritten CRCX and then the auxiliary MDCX to the BSC of the session, an
\* MDCX exactly the rewritten MDCX, and nothing goes to another BSC.
C22CrcxSendsTwo ==
    (/\ op.name = "policy" /\ op.verb \in {"CRCX", "MDCX"}
     /\ op.sccp # 0 /\ sccp[op.sccp].bsc_endp # -1) => SentForVerb

\* C22 amended: a CRCX or MDCX for an endpoint with a bound session whose
\* message the rewriter accepts sends, to the BSC of the session and to no
\* other, for a CRCX exactly the rewritten CRCX and then the auxiliary MDCX and
\* for an MDCX exactly the rewritten MDCX; when the rewriter refuses the
\* message nothing is sent to any BSC and the callback returns CONTINUE.
C22SendsWhenRewritten ==
    (/\ op.name = "policy" /\ op.verb \in {"CRCX", "MDCX"}
     /\ op.sccp # 0 /\ sccp[op.sccp].bsc_endp # -1) =>
        IF op.note = "ok" THEN op.rc = "DEFER" /\ SentForVerb
        ELSE op.note = "no patch" /\ op.rc = "CONT" /\ bsc_out = <<>>

\* a CRCX for a trunk endpoint whose session holds another BSC endpoint id
\* sent the rewritten CRCX followed by the auxiliary MDCX
C22CrcxThenMdcx ==
    /\ op.name = "policy" /\ op.verb = "CRCX" /\ op.note = "ok"
    /\ op.sccp # 0
    /\ sccp[op.sccp].bsc_endp \notin {-1, op.endpoint}
    /\ Len(bsc_out) = 2
    /\ AuxiliaryMdcx(bsc_out[2].msg, sccp[op.sccp].bsc_endp)

\* a CRCX for an endpoint with a bound session sent nothing: the rewriter
\* refused its m=audio line
C22CrcxNotRewritten ==
    /\ op.name = "policy" /\ op.verb = "CRCX" /\ op.note = "no patch"
    /\ op.sccp # 0 /\ sccp[op.sccp].bsc_endp # -1
    /\ bsc_out = <<>>

\* the exits of bsc_mgcp_forward that drop the message for a size or parse
\* error
ErrorDrops == {"too long", "no response", "no endpoint", "no rewrite"}

\* nothing of the core state is written: the pending slots, the connection
\* identifiers and releases of the trunk endpoints, the status arrays and
\* cursors of the BSCs, the SCCP sessions
CoreUnchanged ==
    /\ UNCHANGED <<bsc_endpoints, bsc, sccp>>
    /\ trunk_out' = <<>>

\* C23: when bsc_mgcp_forward drops a message of a BSC for a size or parse
\* error (longer than 2000 bytes, no status line, no pending slot for the
\* transaction id, or a rewrite that fails) nothing is forwarded to the Call
\* Agent and the core state is as before the call.
C23DropLeavesCore ==
    [][op'.name = "forward" /\ op'.note \in ErrorDrops =>
          agent_out' = <<>> /\ CoreUnchanged]_vars

\* the same for the drops that happen before a slot is matched: the message is
\* too long, has no status line, or no slot of the BSC holds its transaction id
C23EarlyDropLeavesCore ==
    [][op'.name = "forward" /\ op'.note \in ErrorDrops \ {"no rewrite"} =>
          agent_out' = <<>> /\ CoreUnchanged]_vars

\* a reply the rewriter refused was dropped after its connection identifier
\* was stored and its slot cleared
C23RewriteFailedHalfway ==
    /\ op.name = "forward" /\ op.note = "no rewrite"
    /\ agent_out = <<>>
    /\ trunk_out = <<SetCi(op.endpoint, op.val)>>
    /\ bsc_endpoints[op.endpoint].transaction_id = NULL
    /\ bsc_endpoints[op.endpoint].bsc = op.bsc

\* the upstream endpoint the CIC bytes of an ASSIGNMENT REQUEST decode to
DecodedEndpoint(cic) ==
    mgcp_timeslot_to_endpoint(DecodeCic(ntohs(cic)).multiplex, DecodeCic(ntohs(cic)).timeslot)

\* the ASSIGNMENT REQUEST has no layer-3 part, too short a one, or no CIC
\* element in it, or its CIC decodes to an endpoint the trunk does not have
Unusable(msg) ==
    \/ msg.cic = <<>>
    \/ DecodedEndpoint(msg.cic) >= NumberEndpoints

\* C24: bsc_mgcp_assign_patch fails for a message without layer-3 pointer, with
\* a layer-3 length below 3, without CIC element or with a CIC that decodes to
\* an endpoint >= trunk.number_endpoints, and then no session is torn down or
\* changed, no status array or cursor changes, no slot changes, nothing is
\* sent and the message is as it was.
C24RejectedEarly ==
    [][op'.name = "assign" /\ Unusable(bssmap'[1]) =>
          /\ op'.rc = -1
          /\ op'.note \in {"no cic", "bad endpoint"}
          /\ UNCHANGED <<sccp, bsc, bsc_endpoints>>
          /\ bsc_out' = <<>> /\ trunk_out' = <<>> /\ agent_out' = <<>>
          /\ bssmap'[2] = bssmap'[1]]_vars

\* an ASSIGNMENT REQUEST for an endpoint past the trunk was refused while its
\* session was bound and kept its endpoints
C24BadEndpointRefused ==
    /\ op.name = "assign" /\ op.rc = -1 /\ op.note = "bad endpoint"
    /\ bssmap[1].cic # <<>>
    /\ DecodedEndpoint(bssmap[1].cic) >= NumberEndpoints
    /\ sccp[op.sccp].msc_endp # -1 /\ sccp[op.sccp].bsc_endp # -1

\* an ASSIGNMENT REQUEST without CIC was refused while its session was bound
C24NoCicRefused ==
    /\ op.name = "assign" /\ op.rc = -1 /\ op.note = "no cic"
    /\ bssmap[1].cic = <<>>
    /\ sccp[op.sccp].msc_endp # -1 /\ sccp[op.sccp].bsc_endp # -1

\* the SCCP sessions whose msc_endp is trunk endpoint e
SessionsOf(e) == {s \in Sccps : sccp[s].msc_endp = e}

\* C25: at any time at most one SCCP session has a given endpoint id as its
\* msc_endp, so that bsc_mgcp_find_con resolves the endpoint to that session
\* and to none when no session has it.
C25OneSessionPerEndpoint ==
    \A e \in Endpoints :
        /\ Cardinality(SessionsOf(e)) <= 1
        /\ IF SessionsOf(e) = {} THEN bsc_mgcp_find_con(Cur, e) = 0
           ELSE SessionsOf(e) = {bsc_mgcp_find_con(Cur, e)}

\* an assignment took the upstream endpoint over from another session, which
\* was torn down with a DLCX
C25StaleReplaced ==
    /\ op.name = "assign" /\ op.rc = 0
    /\ SessionsOf(op.endpoint) = {op.sccp}
    /\ \E s \in Sccps \ {op.sccp} :
           /\ sccp[s] = bsc_mgcp_init
           /\ \E k \in DOMAIN bsc_out : bsc_out[k].to = sccp_bsc[s]

\* what C26 says of the endpoint op.val the allocator returned for BSC 1
ReturnedInRange ==
    /\ 1 <= op.val /\ op.val < bsc[1].max_endpoints
    /\ (op.val % 32) \in 1..30
    /\ op.val <= 32 * bsc[1].number_multiplexes
    /\ op.val \in DOMAIN bsc[1].status

\* C26: for every max_endpoints >= 1, every cursor and every status array an
\* endpoint the allocator returns is at least 1 and below max_endpoints, has a
\* timeslot 1..30 and is an index of the status array of
\* 32 * number_multiplexes + 1 bytes.
C26ReturnedInRange ==
    op.name = "alloc" /\ op.rc = 0 /\ bsc[1].max_endpoints >= 1 => ReturnedInRange

\* the same with max_endpoints >= 2
C26FromTwoEndpoints ==
    op.name = "alloc" /\ op.rc = 0 /\ bsc[1].max_endpoints >= 2 => ReturnedInRange

\* the allocator wrapped from the last timeslot of the first multiplex to the
\* first of the second, passing over the timeslots 31 and 0
C26SkippedToNextMultiplex ==
    /\ op.name = "alloc" /\ op.rc = 0
    /\ op.val = 33
    /\ bsc[1].status[30] = 1

====
